---- MODULE Spec2Model ----
(***************************************************************************)
(* Model of the macOS build pipeline of this repository:                   *)
(*   src/build_obfuscated_mac.py  main(), get_add_data_paths(),            *)
(*                                find_plugins_dir(), prune_qt_plugins()   *)
(*   src/build_mac_cython.py      build_modules() and its __main__ block   *)
(*                                                                         *)
(* Paths are sequences of path components below the project root.  A file  *)
(* of a source tree is a record [dir, stem, ext]; a directory exists when  *)
(* some file lies below it.  One behaviour is one invocation from a shell: *)
(* either the pipeline (main), or the compiler helper (build_modules), or  *)
(* a direct call of get_add_data_paths.                                    *)
(***************************************************************************)
EXTENDS Integers, Sequences, FiniteSets, TLC

\* ------------------------------------------------------------------ bounds
\* Subprocess exit statuses and SystemExit codes are drawn from 0..MaxExitCode.
MaxExitCode == 2

\* ------------------------------------------------------------- path helpers
IsPrefix(p, q) == /\ Len(p) <= Len(q)
                  /\ \A i \in 1..Len(p) : p[i] = q[i]

\* Path.relative_to(base): the components of p after base.
RelativeTo(p, base) == SubSeq(p, Len(base) + 1, Len(p))

File(d, s, e) == [dir |-> d, stem |-> s, ext |-> e]

\* Path(...).exists() for a directory of a source tree.
DirExists(files, d) == \E f \in files : IsPrefix(d, f.dir)

FileExists(files, d, s, e) == File(d, s, e) \in files

\* --------------------------------------------------------- project layout
\* main(), lines 102-105.
SrcDir == <<"src">>
ObfuscatedSrc == <<"obfuscated_src">>

\* Lines 108-109 (and 61-62): the two candidate database locations.
PrimaryDb == <<"data", "accounts.db">>
SecondaryDb == <<"src", "data", "accounts.db">>
DbPaths == {PrimaryDb, SecondaryDb}

NoFile == [exists |-> FALSE, tables |-> {}, settings |-> {}]
\* What sqlite3.connect(path) followed by close() leaves on disk: a file
\* with no table and no row.
EmptyDatabase == [exists |-> TRUE, tables |-> {}, settings |-> {}]
\* A database the application itself has initialised earlier.
AppDatabase ==
    [exists |-> TRUE, tables |-> {"accounts", "settings"}, settings |-> {"version"}]

\* Files a source tree may hold besides main.py, relative to the tree.
ModuleUniverse ==
    { File(<<"core">>, "engine", "py"),
      File(<<"core">>, "__init__", "py"),
      File(<<"core", "turnstilePatch">>, "patch", "py"),
      File(<<"ui">>, "widget", "py"),
      File(<<"plugins">>, "extra", "py"),
      File(<<"assets">>, "icon", "icns") }

EntryFile == File(<<>>, "main", "py")

Under(tree, f) == File(tree \o f.dir, f.stem, f.ext)

TreeFiles(tree, mods) == { Under(tree, f) : f \in mods \cup {EntryFile} }

\* ------------------------------------------------ resource manifest (db)
AddData(srcPath, dest) == [flag |-> "--add-data", src |-> srcPath, dest |-> dest]

\* SelectDb with the two locations tried in the wrong order.
SelectDbSecondaryFirst(p, s) ==
    IF s THEN << AddData(SecondaryDb, "data") >>
    ELSE IF p THEN << AddData(PrimaryDb, "data") >>
    ELSE << >>

\* main(), lines 162-168: the database entry appended to the command line.
\* p, s: whether the primary / secondary database file exists.
SelectDb(p, s) ==
    IF p THEN << AddData(PrimaryDb, "data") >>
    ELSE IF s THEN << AddData(SecondaryDb, "data") >>
    ELSE << >>

\* main(), lines 170-177: the static resources, each if present.
StaticResources(files) ==
    (IF DirExists(files, <<"src", "assets">>)
        THEN << AddData(<<"src", "assets">>, "src/assets") >> ELSE << >>)
    \o
    (IF FileExists(files, <<"src", "utils">>, "public_key", "pem")
        THEN << AddData(<<"src", "utils", "public_key.pem">>, "src/utils") >>
        ELSE << >>)

\* get_add_data_paths(project_root), lines 56-95.
get_add_data_paths(p, s, files) ==
    (IF p THEN << AddData(PrimaryDb, "data") >>
     ELSE IF s THEN << AddData(SecondaryDb, "data") >>
     ELSE << >>)
    \o StaticResources(files)

\* The database entries of a manifest: those whose source is a database path.
DbEntries(manifest) ==
    { i \in 1..Len(manifest) : manifest[i].src \in DbPaths }

\* ------------------------------------------------------- hidden imports
\* main(), lines 183-277: the hard-coded hidden-import names.
StaticHiddenImports ==
    {
      "PyQt6", "requests", "logging.handlers", "logging.config",
      "cryptography", "cryptography.hazmat", "cryptography.hazmat.backends",
      "cryptography.hazmat.primitives",
      "cryptography.hazmat.primitives.padding",
      "cryptography.hazmat.primitives.serialization",
      "cryptography.hazmat.primitives.hashes",
      "cryptography.hazmat.primitives.ciphers",
      "cryptography.hazmat.primitives.ciphers.modes",
      "cryptography.hazmat.primitives.ciphers.algorithms",
      "cryptography.hazmat.primitives.asymmetric",
      "cryptography.hazmat.primitives.asymmetric.padding", "jwt", "psutil",
      "imaplib", "email", "email.header", "email.utils", "uuid",
      "DrissionPage", "ui.about_widget", "ui.settings_widget",
      "ui.account_pool_widget", "ui.email_config_widget",
      "ui.registration_widget", "ui.account_detail_dialog",
      "ui.add_account_dialog", "core.registration_engine",
      "core.account_manager", "core.auth_injector", "core.backend_api",
      "core.cursor_api", "core.email_handler", "core.legacy_email_handler",
      "core.drission_modules", "core.drission_modules.account_storage",
      "core.drission_modules.auto_register",
      "core.drission_modules.browser_manager",
      "core.drission_modules.card_pool_manager",
      "core.drission_modules.country_codes",
      "core.drission_modules.cursor_switcher",
      "core.drission_modules.deep_token_getter",
      "core.drission_modules.email_verification",
      "core.drission_modules.machine_id_generator",
      "core.drission_modules.payment_handler",
      "core.drission_modules.phone_handler",
      "core.drission_modules.registration_steps",
      "core.drission_modules.token_handler",
      "core.drission_modules.turnstile_handler",
      "core.drission_modules.us_address_generator", "utils.crypto",
      "utils.app_paths", "utils.version_checker", "utils.license_monitor",
      "PyQt6.QtWebSockets", "src.ui.about_widget", "src.ui.settings_widget",
      "src.ui.account_pool_widget", "src.ui.email_config_widget",
      "src.ui.registration_widget", "src.ui.account_detail_dialog",
      "src.ui.add_account_dialog", "src.core.registration_engine",
      "src.core.account_manager", "src.core.auth_injector",
      "src.core.backend_api", "src.core.cursor_api",
      "src.core.email_handler", "src.core.legacy_email_handler",
      "src.core.drission_modules",
      "src.core.drission_modules.account_storage",
      "src.core.drission_modules.auto_register",
      "src.core.drission_modules.browser_manager",
      "src.core.drission_modules.card_pool_manager",
      "src.core.drission_modules.country_codes",
      "src.core.drission_modules.cursor_switcher",
      "src.core.drission_modules.deep_token_getter",
      "src.core.drission_modules.email_verification",
      "src.core.drission_modules.machine_id_generator",
      "src.core.drission_modules.payment_handler",
      "src.core.drission_modules.phone_handler",
      "src.core.drission_modules.registration_steps",
      "src.core.drission_modules.token_handler",
      "src.core.drission_modules.turnstile_handler",
      "src.core.drission_modules.us_address_generator", "src.utils.crypto",
      "src.utils.app_paths", "src.utils.version_checker",
      "src.utils.license_monitor", "src.utils.logger", "utils.logger"
    }

\* MinimalMode with "and" for "or": minimal unless both directories exist.
MinimalModeUnlessBoth(files, entry_dir) ==
    ~ (DirExists(files, entry_dir \o <<"ui">>)
       /\ DirExists(files, entry_dir \o <<"core">>))

\* main(), line 121.
MinimalMode(files, entry_dir) ==
    ~ (DirExists(files, entry_dir \o <<"ui">>)
       \/ DirExists(files, entry_dir \o <<"core">>))

\* main(), lines 179-278: the hidden-import directives put on the command line.
HiddenImports(minimal) == IF minimal THEN {} ELSE StaticHiddenImports

\* main(), line 119.
EntryDir(files) ==
    IF FileExists(files, ObfuscatedSrc, "main", "py") THEN ObfuscatedSrc ELSE SrcDir

\* main(), lines 124 and 156-160: the --paths directives.
SearchPaths(files, entry_dir) ==
    << entry_dir >>
    \o (IF DirExists(files, SrcDir) THEN << SrcDir >> ELSE << >>)
    \o (IF DirExists(files, ObfuscatedSrc) THEN << ObfuscatedSrc >> ELSE << >>)

\* BundlerFailed with an off-by-one test (returncode > 1).
BundlerFailedAboveOne(rc) == rc > 1

\* main(), line 289: whether the bundler's exit status aborts the pipeline.
BundlerFailed(rc) == rc # 0

\* BundlerFailureExit with sys.exit(r.returncode) instead of sys.exit(1).
BundlerFailureExitReturncode(rc) == rc

\* main(), line 291: the pipeline's exit code after a failed bundler run.
BundlerFailureExit(rc) == 1

\* An uncaught Python exception ends the interpreter with status 1.
UncaughtExit(kind) == 1

\* ------------------------------------------------------------ the bundle
\* Bundle files are paths below the .app directory, the file name last.
NoBundle == {}

\* find_plugins_dir, lines 8-12: the candidate plugin directories, in order.
Candidates ==
    << <<"Contents", "MacOS", "PyQt6", "Qt6", "plugins">>,
       <<"Contents", "MacOS", "Qt6", "plugins">>,
       <<"Contents", "Resources", "PyQt6", "Qt6", "plugins">> >>

NoPluginsDir == << >>

BundleDirExists(b, d) == \E f \in b : Len(f) > Len(d) /\ IsPrefix(d, f)

\* find_plugins_dir, lines 13-16: the first candidate that exists.
find_plugins_dir(b) ==
    IF \E i \in 1..Len(Candidates) : BundleDirExists(b, Candidates[i])
    THEN Candidates[CHOOSE i \in 1..Len(Candidates) :
            /\ BundleDirExists(b, Candidates[i])
            /\ \A j \in 1..(i - 1) : ~ BundleDirExists(b, Candidates[j])]
    ELSE NoPluginsDir

\* prune_qt_plugins, lines 23-26 and 30-53: the pruned subdirectories in the
\* order the code visits them.
PluginSubdirs == << "platforms", "imageformats", "tls", "iconengines" >>

\* prune_qt_plugins, lines 31, 37, 43, 49.
KeepList(sub) ==
    CASE sub = "platforms" -> {"qcocoa.dylib", "libqcocoa.dylib"}
      [] sub = "imageformats" ->
            {"qpng.dylib", "libqpng.dylib", "qjpeg.dylib", "libqjpeg.dylib",
             "qsvg.dylib", "libqsvg.dylib"}
      [] sub = "tls" ->
            {"qsecuretransport.dylib", "libqsecuretransport.dylib",
             "qopensslbackend.dylib", "libqopensslbackend.dylib"}
      [] sub = "iconengines" -> {"qsvgicon.dylib", "libqsvgicon.dylib"}

\* str.lower() on the file names the model uses.
Lower(name) ==
    CASE name = "LibQCocoa.dylib" -> "libqcocoa.dylib"
      [] OTHER -> name

\* prune_qt_plugins, line 27.
TransDir(plugins_dir) ==
    SubSeq(plugins_dir, 1, Len(plugins_dir) - 2) \o <<"translations">>

Parent(f) == SubSeq(f, 1, Len(f) - 1)
Name(f) == f[Len(f)]

\* Unwanted with the names compared as they are spelled.
UnwantedCaseSensitive(b, plugins_dir, sub) ==
    { f \in b : /\ Parent(f) = plugins_dir \o << sub >>
                /\ Name(f) \notin KeepList(sub) }

\* The files p of directory d (one level) that the loop of lines 32-35 unlinks.
Unwanted(b, plugins_dir, sub) ==
    { f \in b : /\ Parent(f) = plugins_dir \o << sub >>
                /\ Lower(Name(f)) \notin KeepList(sub) }

\* The subdirectories visited before position k of PluginSubdirs.
VisitedBefore(k) == { PluginSubdirs[i] : i \in 1..(k - 1) }

\* prune_qt_plugins, lines 18-54, as a function of the bundle and of what the
\* filesystem refuses: listFail is the position in PluginSubdirs of the
\* subdirectory whose iterdir() raises (0: none), stuck the files whose
\* unlink() or rmtree removal fails.  The result is the bundle afterwards.
prune_qt_plugins(b, listFail, stuck) ==
    LET plugins_dir == find_plugins_dir(b)
        last == IF listFail = 0 THEN Len(PluginSubdirs) + 1 ELSE listFail
        trans == { f \in b : IsPrefix(TransDir(plugins_dir), f) }
        gone == trans \cup
                UNION { Unwanted(b, plugins_dir, sub) : sub \in VisitedBefore(last) }
    IN  IF plugins_dir = NoPluginsDir THEN b ELSE b \ (gone \ stuck)

\* Whether the iterdir() of line 32, 38, 44 or 50 raises out of the function.
PruneRaises(b, listFail) ==
    /\ find_plugins_dir(b) # NoPluginsDir
    /\ listFail # 0
    /\ BundleDirExists(b, find_plugins_dir(b) \o << PluginSubdirs[listFail] >>)

\* How the call ends: by the return of line 21 or the end of the body, or by
\* the exception of an iterdir().
PruneOutcome(b, listFail) ==
    IF PruneRaises(b, listFail) THEN "raised" ELSE "returned"

\* What the bundler may put below a plugin directory and its translations.
PluginFiles(plugins_dir) ==
    { plugins_dir \o <<"platforms", "libqcocoa.dylib">>,
      plugins_dir \o <<"platforms", "libqoffscreen.dylib">>,
      plugins_dir \o <<"imageformats", "libqgif.dylib">>,
      TransDir(plugins_dir) \o <<"qt_zh_CN.qm">> }

Executable == <<"Contents", "MacOS", "CursorProManager">>

\* The bundles pyinstaller may produce: the executable, and any of the plugin
\* files below one of the candidate plugin directories.
BundleLayouts ==
    { {Executable} \cup S :
        S \in UNION { SUBSET PluginFiles(Candidates[i]) : i \in 1..Len(Candidates) } }

\* ------------------------------------------------- build_mac_cython.py
ProjectRoot == << >>
NoArg == << "<no argument>" >>

\* HelperTarget with the argument ignored.
HelperTargetIgnoresArg(arg) == ProjectRoot \o <<"src">>

\* __main__, line 102: the directory compiled in place.
HelperTarget(arg) == IF arg = NoArg THEN ProjectRoot \o <<"src">> ELSE arg

\* build_modules, line 9.
target_dirs == {"core", "utils", "ui"}

\* Line 27: 'turnstilePatch' in str(rel_path), on the names the model uses.
HasTurnstilePatch(name) == name \in {"turnstilePatch"}

Excluded(relDir, stem) ==
    \/ HasTurnstilePatch(stem)
    \/ \E i \in 1..Len(relDir) : HasTurnstilePatch(relDir[i])

\* build_modules, lines 13-37: the source files that become extensions.
Eligible(files, dir) ==
    { f \in files :
        /\ \E t \in target_dirs : IsPrefix(dir \o << t >>, f.dir)
        /\ f.ext = "py"
        /\ f.stem # "__init__"
        /\ ~ Excluded(RelativeTo(f.dir, dir), f.stem) }

\* cythonize (lines 45-49) writes the generated C source next to each module.
GeneratedC(f) == File(f.dir, f.stem, "c")

\* build_ext (line 59, run with the source directory as working directory)
\* writes below <dir>/build: the extension under lib.<platform>/<package
\* path>, its object file under temp.<platform>.
LibDirName == "lib.macosx-11.0-arm64-cpython-311"
TempDirName == "temp.macosx-11.0-arm64-cpython-311"

BuildLib(dir) == dir \o <<"build">>

BuiltArtifact(dir, f) ==
    File(BuildLib(dir) \o << LibDirName >> \o RelativeTo(f.dir, dir), f.stem, "so")

BuiltObject(dir, f) ==
    File(BuildLib(dir) \o << TempDirName >> \o RelativeTo(f.dir, dir), f.stem, "o")

\* Line 78: parts[0].startswith('lib.'), on the names the model uses.
StartsWithLib(name) == name \in {LibDirName}

\* StripLibPrefix with the lib.<platform> segment left in place.
StripLibPrefixKept(parts) == parts

\* Lines 75-79: the directory of an artifact relative to build/, without the
\* lib.<platform> segment.
StripLibPrefix(parts) ==
    IF Len(parts) > 0 /\ StartsWithLib(parts[1]) THEN Tail(parts) ELSE parts

\* Lines 66-85: the copies made into the compiled directory.
Relocated(files, dir) ==
    { File(dir \o StripLibPrefix(RelativeTo(g.dir, BuildLib(dir))), g.stem, g.ext) :
        g \in { h \in files : IsPrefix(BuildLib(dir), h.dir) /\ h.ext = "so" } }

\* Lines 89-98: build/ is removed, then every .c file below the directory.
CleanedUp(files, dir) ==
    { f \in files : /\ ~ IsPrefix(BuildLib(dir), f.dir)
                    /\ ~ (IsPrefix(dir, f.dir) /\ f.ext = "c") }

\* Line 61: a SystemExit whose str() is '0' is swallowed, any other re-raised.
SystemExitSwallowed(code) == code = 0

\* Line 62: the re-raised SystemExit ends the process with its own code.
HelperExitCode(code) == code

\* RestoredCwd with the restore done only after a normal return of setup().
RestoredCwdOnSuccessOnly(original, current, outcome) ==
    IF outcome = "ok" THEN original ELSE current

\* Lines 63-64: the finally clause, whatever way the try block was left.
RestoredCwd(original, current, outcome) == original

\* ------------------------------------------------------------------ state
VARIABLES
    fs,             \* the files of <root>/src and <root>/obfuscated_src
    db,             \* each database path: its content, or NoFile
    hookWritten,    \* <root>/rth_alias_logger.py has been written
    fs0, db0,       \* fs and db when the program was started
    exitCode,       \* the process exit code, once the program has ended
    mainPc,         \* position of main()
    platform,       \* sys.platform
    bundlerOnPath,  \* pyinstaller was found on PATH (line 288)
    dittoOnPath,    \* shutil.which("ditto") found it (line 370)
    minimal_mode,   \* main(), line 121
    cmd,            \* the bundler command line, once built
    bundlerRc,      \* r.returncode, once the bundler has run
    subprocesses,   \* the subprocesses started so far
    executed,       \* the steps of main() run so far
    bundle,         \* the files of dist/CursorProManager.app
    pruneCall,      \* prune_qt_plugins' call: how it ended, the bundle before
                    \* it, and the files whose removal failed
    archive,        \* dist/CursorProManager-mac.zip has been produced
    crashCause,     \* the call whose exception ended the program, if one did
    addDataArgs,    \* the result of a call of get_add_data_paths
    helperPc,       \* position of build_mac_cython.py
    helperArg,      \* its positional argument, or NoArg
    src_dir,        \* build_modules' src_dir
    cwd,            \* the helper process's working directory
    original_cwd,   \* build_modules, line 54
    cwdAtEntry,     \* the working directory when build_modules was entered
    extensions,     \* build_modules, lines 10-37
    compilerResult, \* how setup() ended: "ok", "SystemExit", "exception"
    compilerCode    \* the code of the SystemExit setup() raised

diskVars == << fs, db, hookWritten >>
startVars == << fs0, db0 >>
hostVars == << platform, bundlerOnPath, dittoOnPath >>
buildVars == << minimal_mode, cmd >>
bundlerVars == << bundlerRc, bundle, pruneCall >>
mainVars == << mainPc, hostVars, buildVars, bundlerVars, subprocesses, executed,
               archive >>
helperVars == << helperPc, helperArg, src_dir, cwd, original_cwd, cwdAtEntry,
                 extensions, compilerResult, compilerCode >>

vars == << diskVars, startVars, exitCode, mainVars, crashCause, addDataArgs,
           helperVars >>

\* Bound: the number of files of the source tree besides main.py.
MaxTreeFiles == 1

SourceTrees ==
    { S \in SUBSET ModuleUniverse : Cardinality(S) <= MaxTreeFiles }

NoCmd == [paths |-> << >>, addData |-> << >>, hiddenImports |-> {},
          icon |-> FALSE, entry |-> << >>]
NotCalled == [called |-> FALSE, args |-> << >>]
NotPruned == [outcome |-> "none", before |-> NoBundle, stuck |-> {}]

Exists(d, path) == d[path].exists

Init ==
    /\ \E S \in SourceTrees, staged \in BOOLEAN :
          fs = TreeFiles(SrcDir, S)
               \cup (IF staged THEN TreeFiles(ObfuscatedSrc, S) ELSE {})
    /\ db \in [DbPaths -> {NoFile, AppDatabase}]
    /\ hookWritten = FALSE
    /\ fs0 = fs
    /\ db0 = db
    /\ exitCode = 0
    /\ mainPc = "idle"
    /\ platform = "unknown"
    /\ bundlerOnPath = FALSE
    /\ dittoOnPath = FALSE
    /\ minimal_mode = FALSE
    /\ cmd = NoCmd
    /\ bundlerRc = 0
    /\ subprocesses = {}
    /\ executed = {}
    /\ bundle = NoBundle
    /\ pruneCall = NotPruned
    /\ archive = FALSE
    /\ crashCause = "none"
    /\ addDataArgs = NotCalled
    /\ helperPc = "idle"
    /\ helperArg = NoArg
    /\ src_dir = << >>
    /\ cwd = << >>
    /\ original_cwd = << >>
    /\ cwdAtEntry = << >>
    /\ extensions = {}
    /\ compilerResult = "none"
    /\ compilerCode = 0

NothingStarted == mainPc = "idle" /\ helperPc = "idle" /\ ~ addDataArgs.called

\* ----------------------------------------------------------------- main()
\* Lines 379-380: the script is started on some host.
MainLaunch ==
    /\ NothingStarted
    /\ platform' \in {"darwin", "linux"}
    /\ mainPc' = "platform"
    /\ UNCHANGED << diskVars, startVars, exitCode, bundlerOnPath, dittoOnPath,
                    buildVars, bundlerVars, subprocesses, executed, archive,
                    crashCause, addDataArgs, helperVars >>

\* Lines 98-100.
PlatformCheck ==
    /\ mainPc = "platform"
    /\ IF platform # "darwin"
          THEN mainPc' = "exit" /\ exitCode' = 1
          ELSE mainPc' = "db" /\ UNCHANGED exitCode
    /\ executed' = executed \cup {"platform"}
    /\ UNCHANGED << diskVars, startVars, hostVars, buildVars, bundlerVars,
                    subprocesses, archive, crashCause, addDataArgs, helperVars >>

\* CreatedDbPath with the database created at the secondary location.
CreatedDbPathSecondary == SecondaryDb

\* Lines 113-115: where the empty database is created.
CreatedDbPath == PrimaryDb

\* Lines 107-117.
EnsureDatabase ==
    /\ mainPc = "db"
    /\ IF ~ Exists(db, PrimaryDb) /\ ~ Exists(db, SecondaryDb)
          THEN db' = [db EXCEPT ![CreatedDbPath] = EmptyDatabase]
          ELSE UNCHANGED db
    /\ mainPc' = "entry"
    /\ executed' = executed \cup {"db"}
    /\ UNCHANGED << fs, hookWritten, startVars, exitCode, hostVars, buildVars,
                    bundlerVars, subprocesses, archive, crashCause,
                    addDataArgs, helperVars >>

\* Lines 119-143: the entry point, minimal mode, and the runtime hook file,
\* whose write may fail silently (try/except Exception: pass).
ResolveEntryAndWriteHook ==
    /\ mainPc = "entry"
    /\ minimal_mode' = MinimalMode(fs, EntryDir(fs))
    /\ hookWritten' \in BOOLEAN
    /\ mainPc' = "cmd"
    /\ executed' = executed \cup {"hook"}
    /\ UNCHANGED << fs, db, startVars, exitCode, hostVars, cmd, bundlerVars,
                    subprocesses, archive, crashCause, addDataArgs, helperVars >>

\* Lines 145-283.
BuildCommand ==
    /\ mainPc = "cmd"
    /\ cmd' = [paths |-> SearchPaths(fs, EntryDir(fs)),
               addData |-> SelectDb(Exists(db, PrimaryDb), Exists(db, SecondaryDb))
                           \o StaticResources(fs),
               hiddenImports |-> HiddenImports(minimal_mode),
               icon |-> FileExists(fs, <<"src", "assets">>, "icon", "icns"),
               entry |-> EntryDir(fs) \o <<"main.py">>]
    /\ mainPc' = "bundler"
    /\ executed' = executed \cup {"cmd"}
    /\ UNCHANGED << diskVars, startVars, exitCode, hostVars, minimal_mode,
                    bundlerVars, subprocesses, archive, crashCause,
                    addDataArgs, helperVars >>

\* Lines 288-291.  The host decides whether pyinstaller is found on PATH;
\* when it is not, subprocess.run raises FileNotFoundError, which nothing
\* catches.
RunBundler ==
    /\ mainPc = "bundler"
    /\ executed' = executed \cup {"bundler"}
    /\ bundlerOnPath' \in BOOLEAN
    /\ IF ~ bundlerOnPath'
          THEN /\ mainPc' = "crash"
               /\ crashCause' = "subprocess.run(pyinstaller)"
               /\ exitCode' = UncaughtExit("FileNotFoundError")
               /\ UNCHANGED << bundlerRc, subprocesses, bundle >>
          ELSE /\ subprocesses' = subprocesses \cup {"pyinstaller"}
               /\ UNCHANGED crashCause
               /\ \E rc \in 0..MaxExitCode :
                    /\ bundlerRc' = rc
                    /\ IF BundlerFailed(rc)
                          THEN /\ mainPc' = "exit"
                               /\ exitCode' = BundlerFailureExit(rc)
                               /\ UNCHANGED bundle
                          ELSE /\ mainPc' = "checkapp"
                               /\ bundle' \in BundleLayouts \cup {NoBundle}
                               /\ UNCHANGED exitCode
    /\ UNCHANGED << diskVars, startVars, platform, dittoOnPath, buildVars,
                    pruneCall, archive, addDataArgs, helperVars >>

\* Lines 293-296.
CheckApp ==
    /\ mainPc = "checkapp"
    /\ executed' = executed \cup {"checkapp"}
    /\ IF bundle = NoBundle
          THEN mainPc' = "exit" /\ exitCode' = 1
          ELSE mainPc' = "xattr" /\ UNCHANGED exitCode
    /\ UNCHANGED << diskVars, startVars, hostVars, buildVars, bundlerVars,
                    subprocesses, archive, crashCause, addDataArgs, helperVars >>

\* Lines 297-365: xattr -cr with check=False inside try/except Exception (a
\* non-zero status is ignored, a missing xattr raises FileNotFoundError, which
\* is caught), then the audit, which only reads the bundle and prints.
ClearQuarantineAndAudit ==
    /\ mainPc = "xattr"
    /\ executed' = executed \cup {"xattr", "audit"}
    /\ \E outcome \in {"ok", "nonzero", "raises"} :
          subprocesses' = IF outcome = "raises" THEN subprocesses
                          ELSE subprocesses \cup {"xattr"}
    /\ mainPc' = "prune"
    /\ UNCHANGED << diskVars, startVars, exitCode, hostVars, buildVars,
                    bundlerVars, archive, crashCause, addDataArgs, helperVars >>

\* Line 367 with lines 18-54.  Each unlink() is guarded (try/except: pass),
\* rmtree ignores errors, the iterdir() calls are not guarded.
Prune ==
    /\ mainPc = "prune"
    /\ executed' = executed \cup {"prune"}
    /\ \E listFail \in 0..Len(PluginSubdirs) :
       \E stuck \in SUBSET (bundle \ prune_qt_plugins(bundle, listFail, {})) :
          /\ listFail # 0 => PruneRaises(bundle, listFail)
          /\ bundle' = prune_qt_plugins(bundle, listFail, stuck)
          /\ pruneCall' = [outcome |-> PruneOutcome(bundle, listFail),
                           before |-> bundle, stuck |-> stuck]
          /\ IF PruneRaises(bundle, listFail)
                THEN /\ mainPc' = "crash"
                     /\ crashCause' = "iterdir"
                     /\ exitCode' = UncaughtExit("OSError")
                ELSE /\ mainPc' = "archive"
                     /\ UNCHANGED << crashCause, exitCode >>
    /\ UNCHANGED << diskVars, startVars, hostVars, buildVars, bundlerRc,
                    subprocesses, archive, addDataArgs, helperVars >>

\* Lines 369-377: ditto with check=False when it is on PATH, else
\* shutil.make_archive, which nothing guards; then the success message and
\* the normal end of the script.
Archive ==
    /\ mainPc = "archive"
    /\ executed' = executed \cup {"archive"}
    /\ dittoOnPath' \in BOOLEAN
    /\ IF dittoOnPath'
          THEN \E rc \in 0..MaxExitCode :
                 /\ subprocesses' = subprocesses \cup {"ditto"}
                 /\ archive' = (rc = 0)
                 /\ mainPc' = "done"
                 /\ exitCode' = 0
                 /\ UNCHANGED crashCause
          ELSE \E raises \in BOOLEAN :
                 /\ UNCHANGED subprocesses
                 /\ archive' = ~ raises
                 /\ IF raises
                       THEN /\ mainPc' = "crash"
                            /\ crashCause' = "make_archive"
                            /\ exitCode' = UncaughtExit("OSError")
                       ELSE /\ mainPc' = "done"
                            /\ exitCode' = 0
                            /\ UNCHANGED crashCause
    /\ UNCHANGED << diskVars, startVars, platform, bundlerOnPath, buildVars,
                    bundlerVars, addDataArgs, helperVars >>

\* A direct call of get_add_data_paths(project_root), lines 56-95.
CallGetAddDataPaths ==
    /\ NothingStarted
    /\ addDataArgs' = [called |-> TRUE,
                       args |-> get_add_data_paths(Exists(db, PrimaryDb),
                                                   Exists(db, SecondaryDb), fs)]
    /\ UNCHANGED << diskVars, startVars, exitCode, mainPc, hostVars, buildVars,
                    bundlerVars, subprocesses, executed, archive, crashCause,
                    helperVars >>

\* ------------------------------------------------------- build_modules
\* The directories the helper may be started from.
WorkDirs == { ProjectRoot, <<"src">> }

\* Lines 100-103: the helper is started with or without its argument.
HelperLaunch ==
    /\ NothingStarted
    /\ \E arg \in {NoArg, SrcDir, ObfuscatedSrc}, wd \in WorkDirs :
          /\ helperArg' = arg
          /\ src_dir' = HelperTarget(arg)
          /\ cwd' = wd
          /\ cwdAtEntry' = wd
    /\ helperPc' = "scan"
    /\ UNCHANGED << diskVars, startVars, exitCode, mainVars, crashCause,
                    addDataArgs, original_cwd, extensions, compilerResult,
                    compilerCode >>

\* Lines 9-41: the scan, and the early return when nothing is to compile.
Scan ==
    /\ helperPc = "scan"
    /\ extensions' = Eligible(fs, src_dir)
    /\ IF extensions' = {}
          THEN helperPc' = "returned" /\ exitCode' = 0
          ELSE helperPc' = "cythonize" /\ UNCHANGED exitCode
    /\ UNCHANGED << diskVars, startVars, mainVars, crashCause, addDataArgs,
                    helperArg, src_dir, cwd, original_cwd, cwdAtEntry,
                    compilerResult, compilerCode >>

\* Lines 43-55: cythonize generates the C sources (it may raise part-way),
\* then the working directory is saved and changed.
CythonizeAndEnter ==
    /\ helperPc = "cythonize"
    /\ \E raises \in BOOLEAN, generated \in SUBSET extensions :
          /\ ~ raises => generated = extensions
          /\ fs' = fs \cup { GeneratedC(f) : f \in generated }
          /\ IF raises
                THEN /\ helperPc' = "crash"
                     /\ crashCause' = "cythonize"
                     /\ exitCode' = UncaughtExit("CompileError")
                     /\ UNCHANGED << cwd, original_cwd >>
                ELSE /\ helperPc' = "compiling"
                     /\ original_cwd' = cwd
                     /\ cwd' = src_dir
                     /\ UNCHANGED << crashCause, exitCode >>
    /\ UNCHANGED << db, hookWritten, startVars, mainVars, addDataArgs, helperArg,
                    src_dir, cwdAtEntry, extensions, compilerResult,
                    compilerCode >>

\* Lines 56-64: setup() returns, raises SystemExit, or raises something else,
\* having built some of the extensions (all of them when it returns); the
\* finally clause then restores the working directory.
Compile ==
    /\ helperPc = "compiling"
    /\ \E outcome \in {"ok", "SystemExit", "exception"},
          code \in 0..MaxExitCode,
          built \in SUBSET extensions :
          /\ outcome = "ok" => built = extensions
          /\ outcome # "SystemExit" => code = 0
          /\ compilerResult' = outcome
          /\ compilerCode' = code
          /\ fs' = fs \cup { BuiltArtifact(src_dir, f) : f \in built }
                      \cup { BuiltObject(src_dir, f) : f \in built }
          /\ cwd' = RestoredCwd(original_cwd, cwd, outcome)
          /\ CASE outcome = "ok" ->
                    helperPc' = "relocate" /\ UNCHANGED << exitCode, crashCause >>
               [] outcome = "SystemExit" /\ SystemExitSwallowed(code) ->
                    helperPc' = "relocate" /\ UNCHANGED << exitCode, crashCause >>
               [] outcome = "SystemExit" /\ ~ SystemExitSwallowed(code) ->
                    /\ helperPc' = "exit"
                    /\ exitCode' = HelperExitCode(code)
                    /\ UNCHANGED crashCause
               [] outcome = "exception" ->
                    /\ helperPc' = "crash"
                    /\ crashCause' = "setup"
                    /\ exitCode' = UncaughtExit("Exception")
    /\ UNCHANGED << db, hookWritten, startVars, mainVars, addDataArgs, helperArg,
                    src_dir, original_cwd, cwdAtEntry, extensions >>

\* Lines 66-87.
Relocate ==
    /\ helperPc = "relocate"
    /\ fs' = fs \cup Relocated(fs, src_dir)
    /\ helperPc' = "cleanup"
    /\ UNCHANGED << db, hookWritten, startVars, exitCode, mainVars, crashCause,
                    addDataArgs, helperArg, src_dir, cwd, original_cwd,
                    cwdAtEntry, extensions, compilerResult, compilerCode >>

\* Lines 89-98, and the normal end of the script.
Cleanup ==
    /\ helperPc = "cleanup"
    /\ fs' = CleanedUp(fs, src_dir)
    /\ helperPc' = "returned"
    /\ exitCode' = 0
    /\ UNCHANGED << db, hookWritten, startVars, mainVars, crashCause,
                    addDataArgs, helperArg, src_dir, cwd, original_cwd,
                    cwdAtEntry, extensions, compilerResult, compilerCode >>

Next ==
    \/ HelperLaunch
    \/ Scan
    \/ CythonizeAndEnter
    \/ Compile
    \/ Relocate
    \/ Cleanup
    \/ MainLaunch
    \/ PlatformCheck
    \/ EnsureDatabase
    \/ ResolveEntryAndWriteHook
    \/ BuildCommand
    \/ RunBundler
    \/ CheckApp
    \/ ClearQuarantineAndAudit
    \/ Prune
    \/ Archive
    \/ CallGetAddDataPaths

Spec == Init /\ [][Next]_vars

\* ------------------------------------------- prune_qt_plugins on its own
\* Files an application bundle on disk may hold when prune_qt_plugins(app_path)
\* is called on it: below each candidate plugin directory, kept and unwanted
\* plugins of the pruned subdirectories, a kept name spelled in mixed case, a
\* name kept in another subdirectory only, a plugin of a subdirectory the
\* function does not visit, and translation files.
PruneUniverse ==
    { Candidates[1] \o <<"platforms", "libqcocoa.dylib">>,
      Candidates[1] \o <<"platforms", "LibQCocoa.dylib">>,
      Candidates[1] \o <<"platforms", "libqoffscreen.dylib">>,
      Candidates[1] \o <<"imageformats", "libqgif.dylib">>,
      Candidates[1] \o <<"tls", "libqopensslbackend.dylib">>,
      Candidates[1] \o <<"iconengines", "libqcocoa.dylib">>,
      Candidates[1] \o <<"styles", "libqmacstyle.dylib">>,
      TransDir(Candidates[1]) \o <<"qt_zh_CN.qm">>,
      Parent(Candidates[1]) \o <<"translations", "qt_zh_CN.qm">>,
      Candidates[2] \o <<"platforms", "libqoffscreen.dylib">>,
      TransDir(Candidates[2]) \o <<"qt_zh_CN.qm">>,
      Candidates[3] \o <<"platforms", "libqoffscreen.dylib">>,
      Candidates[3] \o <<"imageformats", "libqpng.dylib">> }

\* Bound: the number of files of such a bundle besides the executable.
MaxPruneFiles == 3

PruneInputs ==
    { {Executable} \cup S :
        S \in { T \in SUBSET PruneUniverse : Cardinality(T) <= MaxPruneFiles } }

\* The state before a call of prune_qt_plugins on a bundle left by a build.
InitPrune ==
    /\ fs = TreeFiles(SrcDir, {})
    /\ db = [p \in DbPaths |-> NoFile]
    /\ hookWritten = FALSE
    /\ fs0 = fs
    /\ db0 = db
    /\ exitCode = 0
    /\ mainPc = "idle"
    /\ platform = "unknown"
    /\ bundlerOnPath = FALSE
    /\ dittoOnPath = FALSE
    /\ minimal_mode = FALSE
    /\ cmd = NoCmd
    /\ bundlerRc = 0
    /\ subprocesses = {}
    /\ executed = {}
    /\ bundle \in PruneInputs
    /\ pruneCall = NotPruned
    /\ archive = FALSE
    /\ crashCause = "none"
    /\ addDataArgs = NotCalled
    /\ helperPc = "idle"
    /\ helperArg = NoArg
    /\ src_dir = << >>
    /\ cwd = << >>
    /\ original_cwd = << >>
    /\ cwdAtEntry = << >>
    /\ extensions = {}
    /\ compilerResult = "none"
    /\ compilerCode = 0

\* A direct call of prune_qt_plugins(app_path), lines 18-54: what the
\* filesystem refuses is chosen as in Prune.
CallPruneQtPlugins ==
    /\ NothingStarted
    /\ pruneCall.outcome = "none"
    /\ \E listFail \in 0..Len(PluginSubdirs) :
       \E stuck \in SUBSET (bundle \ prune_qt_plugins(bundle, listFail, {})) :
          /\ listFail # 0 => PruneRaises(bundle, listFail)
          /\ bundle' = prune_qt_plugins(bundle, listFail, stuck)
          /\ pruneCall' = [outcome |-> PruneOutcome(bundle, listFail),
                           before |-> bundle, stuck |-> stuck]
    /\ UNCHANGED << diskVars, startVars, exitCode, mainPc, hostVars, buildVars,
                    bundlerRc, subprocesses, executed, archive, crashCause,
                    addDataArgs, helperVars >>

SpecPrune == InitPrune /\ [][CallPruneQtPlugins]_vars

\* ======================================================== the claims
CmdBuilt == "cmd" \in executed

\* What the claim C1 asks of a manifest built while the databases are as in d.
ManifestDbOk(manifest, d) ==
    /\ Cardinality(DbEntries(manifest)) <= 1
    /\ \A i \in DbEntries(manifest) : manifest[i].dest = "data"
    /\ Exists(d, PrimaryDb) =>
          \E i \in DbEntries(manifest) : manifest[i].src = PrimaryDb
    /\ (~ Exists(d, PrimaryDb) /\ Exists(d, SecondaryDb)) =>
          \E i \in DbEntries(manifest) : manifest[i].src = SecondaryDb

\* C1: whatever databases exist when the manifest is built, the manifest
\* (the one main() puts on the command line, and the one get_add_data_paths
\* returns) holds at most one database entry, the primary when it exists,
\* the secondary when only the secondary exists, always with destination
\* "data".  (No step after the manifest changes the databases.)
C1_ManifestHasOneDatabase ==
    /\ CmdBuilt => ManifestDbOk(cmd.addData, db)
    /\ addDataArgs.called => ManifestDbOk(addDataArgs.args, db)

\* C1 witness: only the secondary database exists and the command line
\* carries it as its one database entry.
C1_Witness ==
    /\ CmdBuilt
    /\ ~ Exists(db, PrimaryDb)
    /\ Exists(db, SecondaryDb)
    /\ \E i \in DbEntries(cmd.addData) : cmd.addData[i].src = SecondaryDb

NeitherDbAtStart == ~ Exists(db0, PrimaryDb) /\ ~ Exists(db0, SecondaryDb)

SchemaInitialized(content) ==
    /\ content.exists
    /\ {"accounts", "settings"} \subseteq content.tables
    /\ "version" \in content.settings

BundlerReturnedNonZero == "pyinstaller" \in subprocesses /\ bundlerRc # 0

LaterSteps == {"checkapp", "xattr", "audit", "prune", "archive"}

\* C3: once the bundler has returned a non-zero status the pipeline has ended
\* with a non-zero exit code, none of the later steps has run or ever runs,
\* no further subprocess is started and no archive exists.
C3_BundlerFailureAborts ==
    BundlerReturnedNonZero =>
        /\ mainPc = "exit"
        /\ exitCode # 0
        /\ executed \cap LaterSteps = {}
        /\ subprocesses = {"pyinstaller"}
        /\ ~ archive
        /\ ~ ENABLED Next

\* C3 witness: the bundler has returned its largest status and the pipeline
\* has ended.
C3_Witness ==
    /\ BundlerReturnedNonZero
    /\ bundlerRc = MaxExitCode
    /\ mainPc = "exit"

C5_HiddenImportsSuperset ==
    CmdBuilt => cmd.hiddenImports = StaticHiddenImports

SubsystemBesideEntry ==
    \/ DirExists(fs, Parent(cmd.entry) \o <<"ui">>)
    \/ DirExists(fs, Parent(cmd.entry) \o <<"core">>)

\* C5 amended: when a ui or core directory exists next to the entry point
\* the hidden imports on the command line are exactly the static list; when
\* neither exists (minimal mode) the command line carries no hidden import.
C5_HiddenImportsByMode ==
    CmdBuilt =>
        /\ SubsystemBesideEntry => cmd.hiddenImports = StaticHiddenImports
        /\ ~ SubsystemBesideEntry => cmd.hiddenImports = {}

\* C5 witness: a command line built in minimal mode.
C5_Witness ==
    /\ CmdBuilt
    /\ ~ SubsystemBesideEntry
    /\ cmd.hiddenImports = {}

CompiledOk == helperPc = "returned" /\ compilerResult = "ok"

ArtifactAt(f) == File(f.dir, f.stem, "so")

\* The source modules of the compiled directory at the start, package markers
\* and the entry point aside, that are not on the denylist.
NonExcludedModules ==
    { f \in fs0 : /\ IsPrefix(src_dir, f.dir)
                  /\ f.ext = "py"
                  /\ f.stem # "__init__"
                  /\ f # Under(src_dir, EntryFile)
                  /\ ~ Excluded(RelativeTo(f.dir, src_dir), f.stem) }

OriginalTree(files, d) ==
    << { f \in files : IsPrefix(SrcDir, f.dir) }, d[SecondaryDb] >>

PreconditionAbort ==
    \/ mainPc = "exit" /\ platform # "darwin"
    \/ mainPc = "crash" /\ "bundler" \in executed /\ ~ bundlerOnPath

\* C8 as stated: when the pipeline aborts because the platform is wrong or
\* the bundler is not on PATH, the exit code is non-zero, no database has
\* been created, no runtime hook written and no subprocess started.
C8_PreconditionAbortBeforeAnyStage ==
    PreconditionAbort =>
        /\ exitCode # 0
        /\ db = db0
        /\ ~ hookWritten
        /\ subprocesses = {}

BundleConfirmed == "checkapp" \in executed /\ bundle # NoBundle

\* C9 as stated: once the bundle directory is confirmed to exist no failure
\* of a best-effort step (a plugin unlink or directory listing, xattr, ditto,
\* make_archive) ends the pipeline: it never dies of an exception, and when
\* it ends it ends with exit code 0.
C9_BestEffortFailuresSwallowed ==
    BundleConfirmed =>
        /\ mainPc # "crash"
        /\ mainPc \in {"xattr", "prune", "archive", "done"}
        /\ mainPc = "done" => exitCode = 0

HelperLeft == helperPc \in {"returned", "exit", "crash"}

\* C10: when control has left build_modules, by any path, the working
\* directory is the one at entry; it differs from it only while the compiler
\* invocation is in progress.
C10_WorkingDirectoryRestored ==
    /\ HelperLeft => cwd = cwdAtEntry
    /\ (helperPc # "idle" /\ cwd # cwdAtEntry) => helperPc = "compiling"

\* C10 witness: setup() raised an exception while the working directory was
\* changed, and build_modules was left with the directory at entry.
C10_Witness ==
    /\ helperPc = "crash"
    /\ crashCause = "setup"
    /\ src_dir # cwdAtEntry
    /\ cwd = cwdAtEntry


PruneReturned == pruneCall.outcome = "returned"

\* The pruned subdirectory of plugins_dir that holds file f directly, if any.
InPrunedSubdir(plugins_dir, f) ==
    \E i \in 1..Len(PluginSubdirs) :
        Parent(f) = plugins_dir \o << PluginSubdirs[i] >>

UnderTransDir(plugins_dir, f) == IsPrefix(TransDir(plugins_dir), f)

\* C11 as stated: when a plugin directory is found, after prune_qt_plugins
\* returns every file left in the platforms, imageformats, tls and iconengines
\* subdirectories has a name on that subdirectory's keep-list, the translations
\* directory no longer exists, every keep-listed file that existed before still
\* exists, and no file outside those subdirectories and the translations
\* directory has been removed; when no candidate plugin directory exists the
\* bundle is unchanged.
C11_PrunedToKeepLists ==
    PruneReturned =>
        LET b0 == pruneCall.before
            plugins_dir == find_plugins_dir(b0)
        IN  IF plugins_dir # NoPluginsDir
            THEN /\ \A i \in 1..Len(PluginSubdirs) : \A f \in bundle :
                      Parent(f) = plugins_dir \o << PluginSubdirs[i] >>
                          => Name(f) \in KeepList(PluginSubdirs[i])
                 /\ ~ BundleDirExists(bundle, TransDir(plugins_dir))
                 /\ \A i \in 1..Len(PluginSubdirs) : \A f \in b0 :
                      (/\ Parent(f) = plugins_dir \o << PluginSubdirs[i] >>
                       /\ Name(f) \in KeepList(PluginSubdirs[i]))
                          => f \in bundle
                 /\ \A f \in b0 \ bundle :
                      InPrunedSubdir(plugins_dir, f) \/ UnderTransDir(plugins_dir, f)
            ELSE bundle = b0

\* C11 as the code has it: when a plugin directory is found, after
\* prune_qt_plugins returns every file left in the four pruned subdirectories
\* of the first existing candidate has a name whose lower-case form is on that
\* subdirectory's keep-list or is a file whose unlink() failed; the only files
\* left below plugins_dir.parent.parent/translations are files rmtree could
\* not remove; every file of the four subdirectories whose lower-cased name is
\* keep-listed still exists; nothing was added, and nothing outside the four
\* subdirectories and that translations directory was removed; when no
\* candidate plugin directory exists the bundle is unchanged.
C11_PrunedToKeepListsUnlessStuck ==
    PruneReturned =>
        LET b0 == pruneCall.before
            plugins_dir == find_plugins_dir(b0)
        IN  IF plugins_dir # NoPluginsDir
            THEN /\ \A i \in 1..Len(PluginSubdirs) : \A f \in bundle :
                      Parent(f) = plugins_dir \o << PluginSubdirs[i] >>
                          => \/ Lower(Name(f)) \in KeepList(PluginSubdirs[i])
                             \/ f \in pruneCall.stuck
                 /\ \A f \in bundle :
                      UnderTransDir(plugins_dir, f) => f \in pruneCall.stuck
                 /\ \A i \in 1..Len(PluginSubdirs) : \A f \in b0 :
                      (/\ Parent(f) = plugins_dir \o << PluginSubdirs[i] >>
                       /\ Lower(Name(f)) \in KeepList(PluginSubdirs[i]))
                          => f \in bundle
                 /\ bundle \subseteq b0
                 /\ pruneCall.stuck \subseteq bundle
                 /\ \A f \in b0 \ bundle :
                      InPrunedSubdir(plugins_dir, f) \/ UnderTransDir(plugins_dir, f)
            ELSE bundle = b0

\* A call that returned after removing a file, leaving a file it could not
\* remove and keeping a file whose name is keep-listed in lower case only.
C11_Witness ==
    /\ PruneReturned
    /\ find_plugins_dir(pruneCall.before) # NoPluginsDir
    /\ pruneCall.before \ bundle # {}
    /\ pruneCall.stuck # {}
    /\ \E f \in bundle :
          /\ Parent(f) = find_plugins_dir(pruneCall.before) \o <<"platforms">>
          /\ Name(f) \notin KeepList("platforms")
          /\ Lower(Name(f)) \in KeepList("platforms")
====
